---- MODULE Spec2Model ----
(***************************************************************************)
(* A model of DiscordBot (app.py): the startup sequence run by bot.run     *)
(* (login, setup_hook with init_db / load_cogs / status_task.start / the   *)
(* runtime database connection, then the gateway connection and the ready  *)
(* signal), the presence loop status_task, and the event callbacks         *)
(* on_message and on_command_error.                                        *)
(*                                                                         *)
(* Program state is kept in the variables pc .. current_loop.  What a      *)
(* callback does to the outside world (channel sends, log lines, messages  *)
(* handed to process_commands, presence requests, the exception leaving    *)
(* it) is recorded in `call`, the record of the callback invocation in     *)
(* progress or last completed.                                             *)
(***************************************************************************)
EXTENDS Integers, Sequences, FiniteSets, TLC

VARIABLES
    pc,            \* position of the startup sequence
    failure,       \* the step whose exception ended the run, or "none"
    user,          \* self.user (its id), set at login
    bootstrapConn, \* the connection of init_db: "none", "open", "closed"
    schemaApplied, \* number of executescript runs of the schema script
    committed,     \* init_db's commit was done
    cogsDir,       \* the entries of the cogs directory, in os.listdir's order
    failing,       \* the extensions whose load_extension raises
    attempted,     \* the extensions passed to load_extension, in order
    extensions,    \* the extensions registered with the bot
    taskState,     \* status_task: "unstarted", "before_loop", "running", "failed"
    current_loop,  \* completed iterations of status_task
    database,      \* self.database
    runtimeConn,   \* the connection held by self.database: "none", "open"
    call           \* the callback invocation in progress or last completed

vars == <<pc, failure, user, bootstrapConn, schemaApplied, committed, cogsDir,
          failing, attempted, extensions, taskState, current_loop, database,
          runtimeConn, call>>

startupVars == <<pc, failure, user, bootstrapConn, schemaApplied, committed,
                 cogsDir, failing, attempted, extensions, database, runtimeConn>>

(***************************************************************************)
(* Bounds                                                                  *)
(***************************************************************************)
MaxFiles == 3

MaxLoops == 2

MaxRetryAfter == 90000

(***************************************************************************)
(* Constants of the program                                                *)
(***************************************************************************)
StockBotId == "1388645311580340254"

OtherUserId == "1388645310938611793"

StockRoleMention == "<@&1388502220659494983>"

OtherRoleMention == "<@&1388502800912355429>"

statuses == <<"Grow A Garden!", "with KarimBlox!", "with Corget!", "with HyperUp!">>

ErrorColor == "0xE02B2B"

None == "None"

(***************************************************************************)
(* Inputs                                                                  *)
(***************************************************************************)
\* Author ids: the two hardcoded ones, one more account, the bot's own.
HumanId == "700000000000000001"

BotAccountId == "700000000000000002"

AuthorIds == {StockBotId, OtherUserId, HumanId, BotAccountId}

\* The account the token logs in as may be any account, one with a hardcoded
\* id included.
SelfIds == {BotAccountId, StockBotId}

Channels == {"channel-1", "channel-2"}

Messages ==
    [author : [id : AuthorIds, bot : BOOLEAN], channel : Channels]

\* Directory entries, as sequences of characters.
FileNames ==
    { <<"a", ".", "p", "y">>,
      <<"b", ".", "p", "y">>,
      <<"c", ".", "p", "y">>,
      <<"p", "y">>,
      <<"d", ".", "p", "y", "c">> }

RECURSIVE SeqsUpTo(_, _)
\* the sequences over S of length at most n
SeqsUpTo(S, n) ==
    IF n = 0 THEN { <<>> }
    ELSE LET shorter == SeqsUpTo(S, n - 1)
         IN  shorter \cup { Append(s, x) : s \in shorter, x \in S }

Range(s) == { s[i] : i \in DOMAIN s }

\* A directory holds each name once.
Listings ==
    { s \in SeqsUpTo(FileNames, MaxFiles) : Cardinality(Range(s)) = Len(s) }

(***************************************************************************)
(* Text helpers                                                            *)
(***************************************************************************)
RECURSIVE Join(_, _)
\* sep.join(parts)
Join(parts, sep) ==
    IF parts = <<>> THEN ""
    ELSE IF Len(parts) = 1 THEN parts[1]
    ELSE parts[1] \o sep \o Join(Tail(parts), sep)

\* the str of a sequence of characters
Str(chars) == Join(chars, "")

\* file.endswith(".py")
EndsWithPy(file) ==
    /\ Len(file) >= 3
    /\ SubSeq(file, Len(file) - 2, Len(file)) = <<".", "p", "y">>

\* file[:-3]
StripLast3(file) ==
    IF Len(file) <= 3 THEN <<>> ELSE SubSeq(file, 1, Len(file) - 3)

Info(text) == [level |-> "INFO", text |-> text]

Error(text) == [level |-> "ERROR", text |-> text]

(***************************************************************************)
(* Callback invocations                                                    *)
(***************************************************************************)
NoInput == [kind |-> "none"]

Call(handler, input, sent, log, processed, presence, raised) ==
    [handler |-> handler, input |-> input, sent |-> sent, log |-> log,
     processed |-> processed, presence |-> presence, raised |-> raised]

NoCall == Call("none", NoInput, <<>>, <<>>, <<>>, <<>>, <<>>)

\* An exception of the platform or the store, by its type name and text.
Exc(cls, text) ==
    [cls |-> cls, text |-> text, retry_after |-> 0,
     missing_permissions |-> <<>>]

(***************************************************************************)
(* Startup: bot.run -> login -> setup_hook -> connect -> ready              *)
(***************************************************************************)
PyExtensions(files) ==
    { StripLast3(files[i]) : i \in { j \in DOMAIN files : EndsWithPy(files[j]) } }

\* The state after construction, for a cogs directory among dirs in which
\* any of the modules may be one that fails to load.
InitWith(dirs) ==
    /\ pc = "run"
    /\ failure = "none"
    /\ user = None
    /\ bootstrapConn = "none"
    /\ schemaApplied = 0
    /\ committed = FALSE
    /\ cogsDir \in dirs
    /\ failing \in SUBSET PyExtensions(cogsDir)
    /\ attempted = <<>>
    /\ extensions = {}
    /\ taskState = "unstarted"
    /\ current_loop = 0
    /\ database = None
    /\ runtimeConn = "none"
    /\ call = NoCall

Init == InitWith(Listings)

\* An exception leaves setup_hook (or login): bot.run raises, the run ends.
Crash(step, exc) ==
    /\ pc' = "crashed"
    /\ failure' = step
    /\ call' = [call EXCEPT !.raised = <<exc>>]

SetupBanner(u) ==
    << Info("Logged in as " \o u),
       Info("discord.py API version"),
       Info("Python version"),
       Info("Running on"),
       Info("-------------------") >>

\* A setup_hook that does not call init_db.
LoginWithoutInitDb ==
    /\ pc = "run"
    /\ \E u \in SelfIds :
        /\ user' = u
        /\ pc' = "load_cogs"
        /\ call' = Call("setup_hook", NoInput, <<>>, SetupBanner(u),
                        <<>>, <<>>, <<>>)
    /\ UNCHANGED <<failure, bootstrapConn, schemaApplied, committed, cogsDir,
                   failing, attempted, extensions, taskState, current_loop,
                   database, runtimeConn>>

\* bot.run(TOKEN): login sets self.user, then setup_hook starts with its
\* banner; a missing or rejected token raises before setup_hook.
Login ==
    /\ pc = "run"
    /\ \E tokenOk \in BOOLEAN :
        IF tokenOk
        THEN \E u \in SelfIds :
                /\ user' = u
                /\ pc' = "init_db"
                /\ call' = Call("setup_hook", NoInput, <<>>, SetupBanner(u),
                                <<>>, <<>>, <<>>)
                /\ UNCHANGED failure
        ELSE /\ pc' = "crashed"
             /\ failure' = "login"
             /\ call' = Call("run", NoInput, <<>>, <<>>, <<>>, <<>>,
                             <<Exc("LoginFailure", "Improper token")>>)
             /\ UNCHANGED user
    /\ UNCHANGED <<bootstrapConn, schemaApplied, committed, cogsDir, failing,
                   attempted, extensions, taskState, current_loop, database,
                   runtimeConn>>

(***************************************************************************)
(* init_db, one action per await                                           *)
(***************************************************************************)
\* An init_db that logs the failure to open the store and returns.
InitDbConnectSwallowing ==
    /\ pc = "init_db"
    /\ \E ok \in BOOLEAN :
        IF ok
        THEN /\ bootstrapConn' = "open"
             /\ pc' = "executescript"
             /\ UNCHANGED <<failure, call>>
        ELSE /\ pc' = "load_cogs"
             /\ failure' = "init_db"
             /\ call' = [call EXCEPT !.log =
                            Append(@, Error("unable to open database file"))]
             /\ UNCHANGED bootstrapConn
    /\ UNCHANGED <<user, schemaApplied, committed, cogsDir, failing, attempted,
                   extensions, taskState, current_loop, database, runtimeConn>>

\* async with aiosqlite.connect(...) as db
InitDbConnect ==
    /\ pc = "init_db"
    /\ \E ok \in BOOLEAN :
        IF ok
        THEN /\ bootstrapConn' = "open"
             /\ pc' = "executescript"
             /\ UNCHANGED <<failure, call>>
        ELSE /\ Crash("init_db", Exc("OperationalError", "unable to open database file"))
             /\ UNCHANGED bootstrapConn
    /\ UNCHANGED <<user, schemaApplied, committed, cogsDir, failing, attempted,
                   extensions, taskState, current_loop, database, runtimeConn>>

\* with open(schema.sql) as file: await db.executescript(file.read())
\* An exception inside the async with closes db on the way out.
InitDbExecuteScript ==
    /\ pc = "executescript"
    /\ \E outcome \in {"ok", "open", "executescript"} :
        IF outcome = "ok"
        THEN /\ schemaApplied' = schemaApplied + 1
             /\ pc' = "commit"
             /\ UNCHANGED <<failure, call, bootstrapConn>>
        ELSE /\ Crash("init_db",
                      IF outcome = "open"
                      THEN Exc("FileNotFoundError", "schema.sql")
                      ELSE Exc("OperationalError", "executescript"))
             /\ bootstrapConn' = "closed"
             /\ UNCHANGED schemaApplied
    /\ UNCHANGED <<user, committed, cogsDir, failing, attempted, extensions,
                   taskState, current_loop, database, runtimeConn>>

\* await db.commit()
InitDbCommit ==
    /\ pc = "commit"
    /\ \E ok \in BOOLEAN :
        IF ok
        THEN /\ committed' = TRUE
             /\ pc' = "close"
             /\ UNCHANGED <<failure, call, bootstrapConn>>
        ELSE /\ Crash("init_db", Exc("OperationalError", "commit"))
             /\ bootstrapConn' = "closed"
             /\ UNCHANGED committed
    /\ UNCHANGED <<user, schemaApplied, cogsDir, failing, attempted, extensions,
                   taskState, current_loop, database, runtimeConn>>

\* leaving the async with closes db; init_db returns, load_cogs is next
InitDbClose ==
    /\ pc = "close"
    /\ bootstrapConn' = "closed"
    /\ pc' = "load_cogs"
    /\ UNCHANGED <<failure, user, schemaApplied, committed, cogsDir, failing,
                   attempted, extensions, taskState, current_loop, database,
                   runtimeConn, call>>

(***************************************************************************)
(* load_cogs                                                               *)
(***************************************************************************)
ExtensionName(extension) == "cogs." \o Str(extension)

LoadedLine(extension) ==
    Info("Loaded extension '" \o Str(extension) \o "'")

FailedLine(extension) ==
    Error("Failed to load extension " \o Str(extension)
          \o "\nExtensionFailed: " \o ExtensionName(extension))

\* The body of the for loop, for one directory entry: acc holds the
\* extensions attempted and registered and the lines logged so far.
LoadOne(acc, file, raising) ==
    IF EndsWithPy(file)
    THEN LET extension == StripLast3(file)
         IN  IF extension \notin raising
             THEN [attempted |-> Append(acc.attempted, extension),
                   extensions |-> acc.extensions \cup {ExtensionName(extension)},
                   log |-> Append(acc.log, LoadedLine(extension))]
             ELSE [attempted |-> Append(acc.attempted, extension),
                   extensions |-> acc.extensions,
                   log |-> Append(acc.log, FailedLine(extension))]
    ELSE acc

RECURSIVE LoadLoopStopping(_, _, _)
\* A loop inside one try statement: the first failure ends it.
LoadLoopStopping(acc, files, raising) ==
    IF files = <<>> THEN acc
    ELSE IF EndsWithPy(Head(files)) /\ StripLast3(Head(files)) \in raising
    THEN LoadOne(acc, Head(files), raising)
    ELSE LoadLoopStopping(LoadOne(acc, Head(files), raising), Tail(files),
                          raising)

RECURSIVE LoadLoop(_, _, _)
\* for file in os.listdir(...)
LoadLoop(acc, files, raising) ==
    IF files = <<>> THEN acc
    ELSE LoadLoop(LoadOne(acc, Head(files), raising), Tail(files), raising)

LoadCogs ==
    /\ pc = "load_cogs"
    /\ \E dirOk \in BOOLEAN :
        IF dirOk
        THEN LET done == LoadLoop([attempted |-> attempted,
                                   extensions |-> extensions,
                                   log |-> call.log], cogsDir, failing)
             IN  /\ attempted' = done.attempted
                 /\ extensions' = done.extensions
                 /\ call' = [call EXCEPT !.log = done.log]
                 /\ pc' = "status_task_start"
                 /\ UNCHANGED failure
        ELSE /\ Crash("load_cogs", Exc("FileNotFoundError", "cogs"))
             /\ UNCHANGED <<attempted, extensions>>
    /\ UNCHANGED <<cogsDir, failing, user, bootstrapConn, schemaApplied, committed, taskState,
                   current_loop, database, runtimeConn>>

(***************************************************************************)
(* the rest of setup_hook, the gateway connection and the ready signal     *)
(***************************************************************************)
\* self.status_task.start(): the loop's task is created and will run
\* before_status_task first
StartStatusTask ==
    /\ pc = "status_task_start"
    /\ taskState' = "before_loop"
    /\ pc' = "database"
    /\ UNCHANGED <<failure, user, bootstrapConn, schemaApplied, committed,
                   cogsDir, failing, attempted, extensions, current_loop,
                   database, runtimeConn, call>>

\* self.database = DatabaseManager(connection=await aiosqlite.connect(...))
ConnectDatabase ==
    /\ pc = "database"
    /\ \E ok \in BOOLEAN :
        IF ok
        THEN /\ runtimeConn' = "open"
             /\ database' = "DatabaseManager"
             /\ pc' = "connect"
             /\ UNCHANGED <<failure, call>>
        ELSE /\ Crash("database", Exc("OperationalError", "unable to open database file"))
             /\ UNCHANGED <<runtimeConn, database>>
    /\ UNCHANGED <<user, bootstrapConn, schemaApplied, committed, cogsDir,
                   failing, attempted, extensions, taskState, current_loop>>

\* setup_hook has returned: bot.run connects to the gateway, events flow
Connect ==
    /\ pc = "connect"
    /\ pc' = "connected"
    /\ UNCHANGED <<failure, user, bootstrapConn, schemaApplied, committed,
                   cogsDir, failing, attempted, extensions, taskState,
                   current_loop, database, runtimeConn, call>>

\* the platform's ready signal: wait_until_ready returns from now on
Ready ==
    /\ pc = "connected"
    /\ pc' = "ready"
    /\ UNCHANGED <<failure, user, bootstrapConn, schemaApplied, committed,
                   cogsDir, failing, attempted, extensions, taskState,
                   current_loop, database, runtimeConn, call>>

Connected == pc \in {"connected", "ready"}

IsReady == pc = "ready"

(***************************************************************************)
(* status_task                                                             *)
(***************************************************************************)
\* A loop with no before_loop hook.
BeforeStatusTaskNotWaiting ==
    /\ taskState = "before_loop"
    /\ taskState' = "running"
    /\ UNCHANGED <<startupVars, current_loop, call>>

\* before_status_task: await self.wait_until_ready()
BeforeStatusTask ==
    /\ taskState = "before_loop"
    /\ IsReady
    /\ taskState' = "running"
    /\ UNCHANGED <<startupVars, current_loop, call>>

\* One iteration: random.choice(statuses), change_presence.  An exception
\* of change_presence leaves the iteration; the loop retries or ends.
StatusTaskTick ==
    /\ taskState = "running"
    /\ current_loop < MaxLoops
    /\ \E i \in 1..Len(statuses), ok \in BOOLEAN, ends \in BOOLEAN :
        /\ call' = Call("status_task", NoInput, <<>>, <<>>, <<>>,
                        << [activity |-> [type |-> "Game", name |-> statuses[i]],
                            ok |-> ok] >>,
                        IF ok THEN <<>>
                        ELSE <<Exc("ConnectionClosed", "change_presence")>>)
        /\ current_loop' = IF ok THEN current_loop + 1 ELSE current_loop
        /\ taskState' = IF ~ok /\ ends THEN "failed" ELSE "running"
    /\ UNCHANGED startupVars

(***************************************************************************)
(* on_message                                                              *)
(***************************************************************************)
SendFailure == Exc("HTTPException", "send failed")

\* await channel.send(content): the request made and whether it got through
Send(channel, content, ok) ==
    [channel |-> channel, content |-> content, ok |-> ok]

\* A send failure that leaves the try statement.
PingRoleUncaught(message, mention, done, failed, sendOk) ==
    [sent |-> << Send(message.channel, mention, sendOk) >>,
     log |-> IF sendOk THEN << Info(done) >> ELSE <<>>,
     raised |-> IF sendOk THEN <<>> ELSE << SendFailure >>]

\* A send that is made again when it failed.
PingRoleRetry(message, mention, done, failed, sendOk) ==
    [sent |-> IF sendOk THEN << Send(message.channel, mention, TRUE) >>
              ELSE << Send(message.channel, mention, FALSE),
                      Send(message.channel, mention, TRUE) >>,
     log |-> << Info(done) >>,
     raised |-> <<>>]

\* try: send(mention); info(done)  except Exception as e: error(failed: e)
\* raised is what leaves the try statement.
PingRole(message, mention, done, failed, sendOk) ==
    [sent |-> << Send(message.channel, mention, sendOk) >>,
     log |-> IF sendOk THEN << Info(done) >>
             ELSE << Error(failed \o SendFailure.text) >>,
     raised |-> <<>>]

\* The if / elif on the author's id.
Ping(message, sendOk) ==
    IF message.author.id = StockBotId
    THEN PingRole(message, StockRoleMention,
                  "Pinged stock role after stock bot message.",
                  "Failed to ping stock role: ", sendOk)
    ELSE IF message.author.id = OtherUserId
    THEN PingRole(message, OtherRoleMention,
                  "Pinged other role after other user message.",
                  "Failed to ping other role: ", sendOk)
    ELSE [sent |-> <<>>, log |-> <<>>, raised |-> <<>>]

\* The call that results from the if / elif: process_commands is reached
\* unless an exception left it.
AfterPing(message, ping) ==
    IF ping.raised # <<>>
    THEN Call("on_message", message, ping.sent, ping.log, <<>>, <<>>,
              ping.raised)
    ELSE Call("on_message", message, ping.sent, ping.log, <<message>>, <<>>,
              <<>>)

\* on_message with a return at the end of each reply branch.
HandleMessageReturning(message, self, sendOk) ==
    IF message.author.id = self \/ message.author.bot
    THEN Call("on_message", message, <<>>, <<>>, <<>>, <<>>, <<>>)
    ELSE LET ping == Ping(message, sendOk)
         IN  IF ping.sent # <<>>
             THEN Call("on_message", message, ping.sent, ping.log, <<>>, <<>>,
                       ping.raised)
             ELSE AfterPing(message, ping)

\* on_message with the id tests ahead of the self/bot test.
HandleMessageIdFirst(message, self, sendOk) ==
    IF message.author.id \in {StockBotId, OtherUserId}
    THEN AfterPing(message, Ping(message, sendOk))
    ELSE IF message.author.id = self \/ message.author.bot
    THEN Call("on_message", message, <<>>, <<>>, <<>>, <<>>, <<>>)
    ELSE AfterPing(message, Ping(message, sendOk))

\* What one on_message invocation does with message when self.user is self
\* and the channel send (if one is made) succeeds or not.
HandleMessage(message, self, sendOk) ==
    IF message.author.id = self \/ message.author.bot
    THEN Call("on_message", message, <<>>, <<>>, <<>>, <<>>, <<>>)
    ELSE AfterPing(message, Ping(message, sendOk))

\* The account bot.run logs in as is a bot account: its own messages carry
\* the bot flag.
OnMessage ==
    /\ Connected
    /\ \E message \in Messages, sendOk \in BOOLEAN :
        /\ message.author.id = user => message.author.bot
        /\ call' = HandleMessage(message, user, sendOk)
    /\ UNCHANGED <<startupVars, taskState, current_loop>>

(***************************************************************************)
(* on_command_error                                                        *)
(***************************************************************************)
CommandOnCooldown(retry_after) ==
    [cls |-> "CommandOnCooldown", text |-> "You are on cooldown.",
     retry_after |-> retry_after, missing_permissions |-> <<>>]

MissingArgumentText == "name is a required argument that is missing."

Errors ==
    { CommandOnCooldown(45), CommandOnCooldown(3661),
      Exc("NotOwner", "You do not own this bot."),
      [cls |-> "MissingPermissions", text |-> "You are missing permissions.",
       retry_after |-> 0,
       missing_permissions |-> <<"manage_messages", "ban_members">>],
      [cls |-> "BotMissingPermissions", text |-> "Bot requires permissions.",
       retry_after |-> 0, missing_permissions |-> <<"send_messages">>],
      Exc("MissingRequiredArgument", MissingArgumentText),
      Exc("CommandNotFound", "Command is not found"),
      Exc("CheckFailure", "The check functions failed."),
      Exc("CommandInvokeError", "Command raised an exception") }

Contexts == [channel : Channels]

\* isinstance(error, commands.<cls>)
IsInstance(error, cls) == error.cls = cls

\* divmod(a, b) on non-negative integers
DivMod(a, b) == << a \div b, a % b >>

\* The parts without the wrap of the hours.
CooldownPartsUnwrapped(retry_after) ==
    LET ms == DivMod(retry_after, 60)
        hm == DivMod(ms[1], 60)
    IN  [hours |-> hm[1], minutes |-> hm[2], seconds |-> ms[2]]

\* minutes, seconds = divmod(retry_after, 60); hours, minutes =
\* divmod(minutes, 60); hours = hours % 24
CooldownParts(retry_after) ==
    LET ms == DivMod(retry_after, 60)
        hm == DivMod(ms[1], 60)
    IN  [hours |-> hm[1] % 24, minutes |-> hm[2], seconds |-> ms[2]]

\* round() of an integer is that integer
Round(n) == n

\* the f-string of the cooldown embed
CooldownDescription(retry_after) ==
    LET p == CooldownParts(retry_after)
    IN  "**Slow down** - Try again in "
        \o (IF p.hours # 0 THEN ToString(Round(p.hours)) \o "h " ELSE "")
        \o (IF p.minutes # 0 THEN ToString(Round(p.minutes)) \o "m " ELSE "")
        \o ToString(Round(p.seconds)) \o "s"

\* str.capitalize(), on the texts the model passes to it
Capitalize(text) ==
    IF text = MissingArgumentText
    THEN "Name is a required argument that is missing."
    ELSE text

\* The backquote character of the permission notices, which a TLA+ string
\* cannot hold.
Backquote == "[backquote]"

Embed(title, description) ==
    [title |-> title, description |-> description, color |-> ErrorColor]

\* The chain of isinstance tests: the embed to send, or <<>> for the else
\* branch.
Notice(error) ==
    IF IsInstance(error, "CommandOnCooldown")
    THEN << Embed(None, CooldownDescription(error.retry_after)) >>
    ELSE IF IsInstance(error, "NotOwner")
    THEN << Embed(None, "You're not the owner of the bot!") >>
    ELSE IF IsInstance(error, "MissingPermissions")
    THEN << Embed(None, "You're missing permission(s): " \o Backquote
                        \o Join(error.missing_permissions, ", ") \o Backquote) >>
    ELSE IF IsInstance(error, "BotMissingPermissions")
    THEN << Embed(None, "I'm missing permission(s): " \o Backquote
                        \o Join(error.missing_permissions, ", ") \o Backquote) >>
    ELSE IF IsInstance(error, "MissingRequiredArgument")
    THEN << Embed("Error!", Capitalize(error.text)) >>
    ELSE <<>>

\* on_command_error with a pass in the else branch.
HandleCommandErrorSwallowing(context, error, sendOk) ==
    LET notice == Notice(error)
        input == [context |-> context, error |-> error]
    IN  IF notice # <<>>
        THEN Call("on_command_error", input,
                  << Send(context.channel, notice[1], sendOk) >>, <<>>, <<>>,
                  <<>>, IF sendOk THEN <<>> ELSE <<SendFailure>>)
        ELSE Call("on_command_error", input, <<>>, <<>>, <<>>, <<>>, <<>>)

\* What one on_command_error invocation does: a context.send that fails
\* raises out of the hook; the else branch raises error itself.
HandleCommandError(context, error, sendOk) ==
    LET notice == Notice(error)
        input == [context |-> context, error |-> error]
    IN  IF notice # <<>>
        THEN Call("on_command_error", input,
                  << Send(context.channel, notice[1], sendOk) >>, <<>>, <<>>,
                  <<>>, IF sendOk THEN <<>> ELSE <<SendFailure>>)
        ELSE Call("on_command_error", input, <<>>, <<>>, <<>>, <<>>, <<error>>)

OnCommandError ==
    /\ Connected
    /\ \E context \in Contexts, error \in Errors, sendOk \in BOOLEAN :
        call' = HandleCommandError(context, error, sendOk)
    /\ UNCHANGED <<startupVars, taskState, current_loop>>

(***************************************************************************)
(* Specifications                                                          *)
(***************************************************************************)
\* Startup and the presence loop, over every cogs directory.
NextStartup ==
    \/ Login
    \/ InitDbConnect
    \/ InitDbExecuteScript
    \/ InitDbCommit
    \/ InitDbClose
    \/ LoadCogs
    \/ StartStatusTask
    \/ ConnectDatabase
    \/ Connect
    \/ Ready
    \/ BeforeStatusTask
    \/ StatusTaskTick

StartupSpec == Init /\ [][NextStartup]_vars

\* The whole program, over one cogs directory: the event callbacks do not
\* read what load_cogs registered.
EventsDir ==
    << <<"a", ".", "p", "y">>, <<"d", ".", "p", "y", "c">>, <<"b", ".", "p", "y">> >>

InitEvents == InitWith({EventsDir})

Next ==
    \/ Login
    \/ InitDbConnect
    \/ InitDbExecuteScript
    \/ InitDbCommit
    \/ InitDbClose
    \/ LoadCogs
    \/ StartStatusTask
    \/ ConnectDatabase
    \/ Connect
    \/ Ready
    \/ BeforeStatusTask
    \/ StatusTaskTick
    \/ OnMessage
    \/ OnCommandError

Spec == InitEvents /\ [][Next]_vars

\* The cooldown notice over every retry-after up to MaxRetryAfter, from the
\* state a clean startup over EventsDir leaves.
AfterCleanStartup ==
    LET done == LoadLoop([attempted |-> <<>>, extensions |-> {},
                          log |-> SetupBanner(BotAccountId)], EventsDir, {})
    IN  /\ pc = "ready"
        /\ failure = "none"
        /\ user = BotAccountId
        /\ bootstrapConn = "closed"
        /\ schemaApplied = 1
        /\ committed = TRUE
        /\ cogsDir = EventsDir
        /\ failing = {}
        /\ attempted = done.attempted
        /\ extensions = done.extensions
        /\ taskState = "before_loop"
        /\ current_loop = 0
        /\ database = "DatabaseManager"
        /\ runtimeConn = "open"
        /\ call = Call("setup_hook", NoInput, <<>>, done.log, <<>>, <<>>, <<>>)

\* The first event after startup is a command on cooldown.
OnCooldownError ==
    /\ Connected
    /\ call.handler = "setup_hook"
    /\ \E context \in Contexts, retry_after \in 0..MaxRetryAfter :
        call' = HandleCommandError(context, CommandOnCooldown(retry_after), TRUE)
    /\ UNCHANGED <<startupVars, taskState, current_loop>>

CooldownSpec == AfterCleanStartup /\ [][OnCooldownError]_vars

\* The event loop runs a task that can run: the loop's task is not starved.
FairSpec ==
    Spec /\ WF_vars(BeforeStatusTask) /\ WF_vars(StatusTaskTick)

(***************************************************************************)
(* on_message: claims C1, C2, C3, C10                                      *)
(***************************************************************************)
IsMessageCall == call.handler = "on_message"

HardcodedIds == {StockBotId, OtherUserId}

\* the message on_message returns on at once
Discarded(message) == message.author.id = user \/ message.author.bot

MentionFor(id) ==
    IF id = "1388645311580340254" THEN <<"<@&1388502220659494983>">>
    ELSE IF id = "1388645310938611793" THEN <<"<@&1388502800912355429>">>
    ELSE <<>>

\* the sends of the call are one send of each of mentions, to the channel
\* the message came from
SendsExactly(mentions) ==
    /\ Len(call.sent) = Len(mentions)
    /\ \A i \in DOMAIN call.sent :
          /\ call.sent[i].channel = call.input.channel
          /\ call.sent[i].content = mentions[i]

\* C2 as stated: every message from the first hardcoded id gets exactly one
\* send of the first mention to its channel, every message from the second
\* id exactly one send of the second mention, a message from any other id
\* none.
C2_ReplyForEveryMatch ==
    IsMessageCall => SendsExactly(MentionFor(call.input.author.id))

\* C2, amended: the above holds of the messages that pass the self/bot
\* test, that is, whose author is neither the bot itself nor flagged as a
\* bot account.
C2_ReplyForEveryMatchNotDiscarded ==
    (IsMessageCall /\ ~Discarded(call.input))
        => SendsExactly(MentionFor(call.input.author.id))

C2_Witness ==
    /\ IsMessageCall
    /\ call.input.author.id = OtherUserId
    /\ ~Discarded(call.input)
    /\ call.sent = << Send(call.input.channel, OtherRoleMention, TRUE) >>

\* C3: a message whose author is the bot itself or is flagged as a bot
\* account is dropped whatever the author's id: nothing is sent, nothing is
\* logged, process_commands is not called.
C3_BotMessagesDiscarded ==
    (IsMessageCall /\ Discarded(call.input)) =>
        /\ call.sent = <<>>
        /\ call.log = <<>>
        /\ call.processed = <<>>
        /\ call.raised = <<>>

C3_Witness ==
    /\ IsMessageCall
    /\ call.input.author.id \in HardcodedIds
    /\ call.input.author.bot
    /\ call.sent = <<>>

\* C10: when the channel send of a reply branch fails, nothing is raised
\* out of on_message, one ERROR line and no INFO line is logged.
C10_SendFailureCaught ==
    (IsMessageCall /\ call.sent # <<>> /\ ~call.sent[1].ok) =>
        /\ call.raised = <<>>
        /\ Len(call.log) = 1
        /\ call.log[1].level = "ERROR"
        /\ \A i \in DOMAIN call.log : call.log[i].level # "INFO"

C10_Witness ==
    /\ IsMessageCall
    /\ call.sent # <<>>
    /\ ~call.sent[1].ok
    /\ call.log = << Error("Failed to ping other role: send failed") >>

(***************************************************************************)
(* on_command_error: claim C5                                              *)
(***************************************************************************)
IsErrorCall == call.handler = "on_command_error"

ClassifiedKinds ==
    {"CommandOnCooldown", "NotOwner", "MissingPermissions",
     "BotMissingPermissions", "MissingRequiredArgument"}

\* C5: an error of none of the five kinds leaves the hook as it came in and
\* no send is made; for an error of one of the five kinds the hook makes
\* exactly one send, on the context's channel, and does not raise the error
\* again.
C5_ClassifiedOrReraised ==
    IsErrorCall =>
        IF call.input.error.cls \in ClassifiedKinds
        THEN /\ Len(call.sent) = 1
             /\ call.sent[1].channel = call.input.context.channel
             /\ call.raised # << call.input.error >>
             /\ call.sent[1].ok => call.raised = <<>>
        ELSE /\ call.sent = <<>>
             /\ call.raised = << call.input.error >>

C5_Witness ==
    /\ IsErrorCall
    /\ call.input.error.cls = "CommandNotFound"
    /\ call.sent = <<>>
    /\ call.raised = << call.input.error >>

(***************************************************************************)
(* the cooldown notice: claim C4                                           *)
(***************************************************************************)
IsCooldownCall ==
    IsErrorCall /\ call.input.error.cls = "CommandOnCooldown"

CooldownPrefix == "**Slow down** - Try again in "

\* h, m and s of a retry-after, as the claim defines them
UnitsOf(retry_after) ==
    << [value |-> (retry_after \div 3600) % 24, unit |-> "h"],
       [value |-> (retry_after \div 60) % 60, unit |-> "m"],
       [value |-> retry_after % 60, unit |-> "s"] >>

RECURSIVE Rendered(_)
\* the units written as `{value}{unit}`
Rendered(units) ==
    IF units = <<>> THEN <<>>
    ELSE << ToString(Head(units).value) \o Head(units).unit >>
         \o Rendered(Tail(units))

NonZero(u) == u.value # 0

NonZeroOrSeconds(u) == u.value # 0 \/ u.unit = "s"

\* C4 as stated: the wait is written as the units h, m, s that are not
\* zero, in that order, separated by one space.
C4_ZeroUnitsOmitted ==
    IsCooldownCall =>
        call.sent[1].content.description =
            CooldownPrefix
            \o Join(Rendered(SelectSeq(UnitsOf(call.input.error.retry_after),
                                       NonZero)), " ")

\* C4, amended: hours and minutes are left out when zero, the seconds are
\* always written, as `0s` when zero.
C4_ZeroHoursMinutesOmitted ==
    IsCooldownCall =>
        call.sent[1].content.description =
            CooldownPrefix
            \o Join(Rendered(SelectSeq(UnitsOf(call.input.error.retry_after),
                                       NonZeroOrSeconds)), " ")

C4_Witness ==
    /\ IsCooldownCall
    /\ call.input.error.retry_after = 90000
    /\ call.sent[1].content.description = CooldownPrefix \o "1h 0s"

(***************************************************************************)
(* startup: claims C6, C7, C8                                              *)
(***************************************************************************)
\* init_db has run to its end: script executed, committed, connection closed
InitDbDone ==
    /\ schemaApplied = 1
    /\ committed
    /\ bootstrapConn = "closed"

\* setup_hook is at or past its call of load_cogs
AtOrPastLoadCogs ==
    \/ pc \in {"load_cogs", "status_task_start", "database", "connect",
               "connected", "ready"}
    \/ failure \in {"load_cogs", "database"}

\* C6: the schema script is executed at most once, then committed, then the
\* bootstrap connection is closed, and all of this is done before load_cogs
\* is called, before any extension is registered and before the runtime
\* connection is opened and self.database set.
C6_SchemaBeforeCogsAndStore ==
    /\ schemaApplied <= 1
    /\ committed => schemaApplied = 1
    /\ (bootstrapConn = "closed" /\ failure # "init_db") => committed
    /\ ( \/ AtOrPastLoadCogs
         \/ attempted # <<>>
         \/ extensions # {}
         \/ taskState # "unstarted"
         \/ runtimeConn # "none"
         \/ database # None ) => InitDbDone

C6_Witness ==
    /\ pc = "ready"
    /\ extensions # {}
    /\ database = "DatabaseManager"
    /\ runtimeConn = "open"
    /\ InitDbDone

\* C7: after a failure of init_db (the store cannot be opened, the schema
\* file cannot be read, the script or the commit fails) the run is over: no
\* extension is attempted or registered, status_task is not started,
\* self.database is not set, the bot is neither connected nor ready.
C7_InitDbFailureIsFatal ==
    failure = "init_db" =>
        /\ pc = "crashed"
        /\ call.raised # <<>>
        /\ attempted = <<>>
        /\ extensions = {}
        /\ taskState = "unstarted"
        /\ database = None
        /\ runtimeConn = "none"

C7_Witness ==
    /\ failure = "init_db"
    /\ pc = "crashed"
    /\ schemaApplied = 1
    /\ ~committed
    /\ bootstrapConn = "closed"

\* a directory entry whose last three characters are ".py"
IsPyEntry(f) ==
    /\ Len(f) >= 3
    /\ f[Len(f) - 2] = "."
    /\ f[Len(f) - 1] = "p"
    /\ f[Len(f)] = "y"

\* the entry without its last three characters
ModuleOf(f) == [i \in 1..(Len(f) - 3) |-> f[i]]

\* the modules of the directory, in listing order
ModulesOf(dir) ==
    LET py == SelectSeq(dir, IsPyEntry)
    IN  [i \in DOMAIN py |-> ModuleOf(py[i])]

\* load_cogs has returned and its log lines are at hand
LoadCogsReturned ==
    /\ call.handler = "setup_hook"
    /\ \/ pc \in {"status_task_start", "database", "connect", "connected",
                  "ready"}
       \/ failure = "database"

BannerLines == 5

\* C8: load_cogs attempts every .py entry once, in listing order, registers
\* those whose load does not raise and no other, logs one INFO line for
\* each registered and one ERROR line for each failing module, in that
\* order, and returns whatever the set of failing modules; the only
\* exception that leaves it is the one of listing the directory.
C8_LoadIsolatedPerModule ==
    /\ LoadCogsReturned =>
        LET modules == ModulesOf(cogsDir)
            lines == SubSeq(call.log, BannerLines + 1, Len(call.log))
        IN  /\ attempted = modules
            /\ extensions =
                  { "cogs." \o Str(modules[i]) :
                      i \in { j \in DOMAIN modules : modules[j] \notin failing } }
            /\ Len(lines) = Len(modules)
            /\ \A i \in DOMAIN modules :
                  lines[i] = IF modules[i] \in failing
                             THEN FailedLine(modules[i])
                             ELSE LoadedLine(modules[i])
            /\ \A i \in DOMAIN modules :
                  lines[i].level = IF modules[i] \in failing
                                   THEN "ERROR" ELSE "INFO"
    /\ failure = "load_cogs" =>
          /\ call.raised = << Exc("FileNotFoundError", "cogs") >>
          /\ attempted = <<>>

C8_Witness ==
    /\ pc = "status_task_start"
    /\ cogsDir = << <<"a", ".", "p", "y">>, <<"b", ".", "p", "y">>,
                    <<"c", ".", "p", "y">> >>
    /\ failing = { <<"b">> }
    /\ attempted = << <<"a">>, <<"b">>, <<"c">> >>
    /\ extensions = {"cogs.a", "cogs.c"}

(***************************************************************************)
(* the presence loop: claim C9                                             *)
(***************************************************************************)
\* an iteration of status_task has run
Ticked ==
    \/ current_loop > 0
    \/ taskState = "failed"
    \/ call.handler = "status_task"

NoTickBeforeReady ==
    (Ticked \/ call.presence # <<>> \/ taskState = "running") => IsReady

TickPicksAStatus ==
    call.handler = "status_task" =>
        /\ Len(call.presence) = 1
        /\ call.presence[1].activity.name \in
              {"Grow A Garden!", "with KarimBlox!", "with Corget!",
               "with HyperUp!"}

\* C9: no presence request is made before the ready signal, although the
\* task is started in setup_hook; once ready, an iteration eventually runs;
\* every iteration requests one entry of the four-entry status list.
C9_TicksOnlyAndEventuallyAfterReady ==
    /\ [](NoTickBeforeReady /\ TickPicksAStatus)
    /\ (IsReady ~> Ticked)

C9_Witness ==
    /\ IsReady
    /\ call.handler = "status_task"
    /\ current_loop >= 1
    /\ call.presence[1].activity.name = "with HyperUp!"

====
